---- MODULE Spec2Model ----
(***************************************************************************)
(* Model of tic_tac_toe_tg_bot.py: the handlers start, game, end and stop  *)
(* as main registers them, and the win check won.  A board is state[r][c]  *)
(* with r, c in 0..2, as in the source.                                    *)
(*   Spec, SpecLive  one conversation, handler calls one at a time         *)
(*   SpecAny         the same, started on any well-formed board            *)
(*   SpecAsync       calls of game interleaved at their awaits             *)
(*   SpecSessions    the sessions of several users, boards as objects      *)
(***************************************************************************)
EXTENDS Integers, FiniteSets, Sequences, TLC

\* ---- constants of the source ----
CONTINUE_GAME == 0
FINISH_GAME == 1
END == -1
FREE_SPACE == "."
CROSS == "X"
ZERO == "O"
N == 3

Idx == 0..(N - 1)
Marks == {FREE_SPACE, CROSS, ZERO}
Coord == Idx \X Idx
Boards == [Idx -> [Idx -> Marks]]

\* user_data before the first /start holds no 'keyboard_state'
NoState == [i \in {} |-> FREE_SPACE]
NoCell == <<-1, -1>>

\* texts sent to the chat, each with the call that sends it
MSG_NONE == "none"
MSG_START == "reply: X (your) turn!"
MSG_OCCUPIED == "reply: This cell is already occupied!"
MSG_YOU_WON == "reply: You won!"
MSG_AI_WON == "reply: AI won!"
MSG_DRAW == "reply: Draw!"
MSG_TURN == "edit: X (your) turn!"
MSG_STOP == "reply: Bot is stopping... Goodbye!"

\* the five results of a move attempt, one per return statement of game
ILLEGAL_MOVE == "ILLEGAL_MOVE"
PLAYER_WIN == "PLAYER_WIN"
OPPONENT_WIN == "OPPONENT_WIN"
DRAW == "DRAW"
ONGOING == "ONGOING"
NO_OUTCOME == "NO_OUTCOME"
Outcomes == {ILLEGAL_MOVE, PLAYER_WIN, OPPONENT_WIN, DRAW, ONGOING}

VARIABLES
  DEFAULT_STATE,    \* the module-level template board
  keyboard_state,   \* context.user_data['keyboard_state']
  conv_state,       \* state of the conversation kept by ConversationHandler
  running,          \* the application still processes updates
  msg,              \* last text sent to the chat
  outcome,          \* which return statement the last handler call took
  before,           \* board at the start of the last game call
  played,           \* (r, c) of the last game call
  reply,            \* (ir, ic) chosen in the last game call, NoCell if none
  prev_conv,        \* conversation state in which the last handler was called
  moves,            \* player marks placed by game since the last start
  tasks,            \* calls of game in flight, each with its position and locals
  cur,              \* the task that holds the event loop, 0 when none does
  boards,           \* per user, the board object made by that user's last reset
  user_data,        \* per user, the object user_data['keyboard_state'] refers to
  conversations,    \* per user, the state of that user's conversation
  session_turns,    \* calls of game made in all sessions so far
  last_user         \* the user whose update was handled last, 0 at first

vars == <<DEFAULT_STATE, keyboard_state, conv_state, running, msg, outcome,
          before, played, reply, prev_conv, moves, tasks, cur,
          boards, user_data, conversations, session_turns, last_user>>

\* the variables of the handler calls that are processed one at a time
turn_vars == <<outcome, before, played, reply, prev_conv, moves>>
\* the variables of the interleaved calls of game
async_vars == <<tasks, cur>>

\* the variables of the sessions of several users
session_vars == <<boards, user_data, conversations, session_turns, last_user>>

\* ---- bounds ----
NumTasks == 2
NumUsers == 2
MaxSessionTurns == 1

\* a reference is 0 for the DEFAULT_STATE object, u for the board object of
\* user u, NoRef while user_data has no 'keyboard_state'
Users == 1..NumUsers
NoRef == -1
SessionsIdle ==
  /\ boards = [u \in Users |-> NoState]
  /\ user_data = [u \in Users |-> NoRef]
  /\ conversations = [u \in Users |-> END]
  /\ session_turns = 0
  /\ last_user = 0

Tasks == 1..NumTasks
NoResult == [ret |-> END, msg |-> MSG_NONE, outcome |-> NO_OUTCOME]
IdleTask == [pc |-> "idle", r |-> -1, c |-> -1, free |-> {}, cell |-> NoCell,
             res |-> NoResult]
AsyncIdle ==
  /\ tasks = [h \in Tasks |-> IdleTask]
  /\ cur = 0

\* ---- helpers ----
EmptyBoard == [i \in Idx |-> [j \in Idx |-> FREE_SPACE]]

\* a board late in a game: four turns played, no line, (2,2) is the last
\* free cell
LateRows == << <<CROSS, ZERO, CROSS>>, <<CROSS, ZERO, ZERO>>, <<ZERO, CROSS, FREE_SPACE>> >>
LateBoard == [i \in Idx |-> [j \in Idx |-> LateRows[i + 1][j + 1]]]

get_default_state(template) == template

\* won with the second diagonal indexed like the first one
won_one_diagonal(fields, symbol) ==
  \/ \E row \in Idx : \A cell \in Idx : fields[row][cell] = symbol
  \/ \E col \in Idx : \A row \in Idx : fields[row][col] = symbol
  \/ \A i \in Idx : fields[i][i] = symbol
  \/ \A i \in Idx : fields[2 - i][2 - i] = symbol

won(fields, symbol) ==
  \/ \E row \in Idx : \A cell \in Idx : fields[row][cell] = symbol
  \/ \E col \in Idx : \A row \in Idx : fields[row][col] = symbol
  \/ \A i \in Idx : fields[i][i] = symbol
  \/ \A i \in Idx : fields[i][2 - i] = symbol

\* free cell check that only looks for the player's own mark
cell_occupied_cross_only(state, r, c) == state[r][c] = CROSS

cell_occupied(state, r, c) == state[r][c] # FREE_SPACE

\* user turn written with the indices swapped
user_turn_transposed(state, r, c) == [state EXCEPT ![c][r] = CROSS]

user_turn(state, r, c) == [state EXCEPT ![r][c] = CROSS]

\* user victory check skipped on a full board (draw check taken first)
user_victory_after_draw(state) ==
  won(state, CROSS) /\ \E i \in Idx, j \in Idx : state[i][j] = FREE_SPACE

\* user victory check called with the opponent's symbol
user_victory_check_zero(state) == won(state, ZERO)

user_victory_check(state) == won(state, CROSS)

\* free cells collected with the column range one short
free_cells_short_range(state) ==
  {cell \in Idx \X (0..(N - 2)) : state[cell[1]][cell[2]] = FREE_SPACE}

\* free cells collected without the FREE_SPACE filter
free_cells_unfiltered(state) == Coord

free_cells(state) == {cell \in Coord : state[cell[1]][cell[2]] = FREE_SPACE}

ai_turn(state, ir, ic) == [state EXCEPT ![ir][ic] = ZERO]

\* AI victory check called with the player's symbol
ai_victory_check_cross(state) == won(state, CROSS)

ai_victory_check(state) == won(state, ZERO)

\* draw check that compares the list with None instead of testing emptiness
draw_check_never(free) == free = {} /\ free # {}

draw_check(free) == free = {}

\* what one call of game returns and sends, by return statement
occupied_result == [ret |-> CONTINUE_GAME, msg |-> MSG_OCCUPIED, outcome |-> ILLEGAL_MOVE]
user_won_result == [ret |-> FINISH_GAME, msg |-> MSG_YOU_WON, outcome |-> PLAYER_WIN]
\* AI victory branch sending the text of the user victory branch
ai_won_result_user_text == [ret |-> FINISH_GAME, msg |-> MSG_YOU_WON, outcome |-> OPPONENT_WIN]

ai_won_result == [ret |-> FINISH_GAME, msg |-> MSG_AI_WON, outcome |-> OPPONENT_WIN]
\* draw branch returning the wrong conversation state
draw_result_continues == [ret |-> CONTINUE_GAME, msg |-> MSG_DRAW, outcome |-> DRAW]

draw_result == [ret |-> FINISH_GAME, msg |-> MSG_DRAW, outcome |-> DRAW]
continue_result == [ret |-> CONTINUE_GAME, msg |-> MSG_TURN, outcome |-> ONGOING]

\* the tail of game after the AI block: draw check, else next prompt
after_ai(free) == IF draw_check(free) THEN draw_result ELSE continue_result

\* ---- handlers ----
\* Dispatch follows the ConversationHandler built in main: start is the entry
\* point and a fallback, so /start is handled in every conversation state;
\* game handles a cell button in CONTINUE_GAME, end handles one in
\* FINISH_GAME, stop is a fallback and so needs a running conversation.
\* Updates are processed one at a time, each handler call is one step.
\* the conversation states whose handler list holds game, end (main)
\* game listed under both conversation states
game_registered_both(cs) == cs \in {CONTINUE_GAME, FINISH_GAME}

game_registered(cs) == cs = CONTINUE_GAME

end_registered(cs) == cs = FINISH_GAME

\* stop is registered as a fallback only, start also as the entry point
stop_registered(cs) == cs # END

\* start registered as entry point only, not as a fallback
start_registered_entry_only(cs) == cs = END

start_registered(cs) == TRUE

Finish(state, res, ai) ==
  /\ keyboard_state' = state
  /\ conv_state' = res.ret
  /\ msg' = res.msg
  /\ outcome' = res.outcome
  /\ reply' = ai

\* what one call of game can do to the board it is given: the board it
\* leaves, the branch it returns by and the cell of the AI (NoCell if none)
game_turns(state, r, c) ==
  IF cell_occupied(state, r, c)
    THEN {[state |-> state, res |-> occupied_result, cell |-> NoCell]}
    ELSE LET s1 == user_turn(state, r, c) IN
         IF user_victory_check(s1)
           THEN {[state |-> s1, res |-> user_won_result, cell |-> NoCell]}
           ELSE LET free == free_cells(s1) IN
                IF free # {}
                  THEN {[state |-> ai_turn(s1, cell[1], cell[2]),
                         res |-> IF ai_victory_check(ai_turn(s1, cell[1], cell[2]))
                                   THEN ai_won_result
                                   ELSE after_ai(free),
                         cell |-> cell] : cell \in free}
                  ELSE {[state |-> s1, res |-> after_ai(free), cell |-> NoCell]}

game(r, c) ==
  /\ running
  /\ game_registered(conv_state)
  /\ prev_conv' = conv_state
  /\ moves' = IF cell_occupied(keyboard_state, r, c) THEN moves ELSE moves + 1
  /\ before' = keyboard_state
  /\ played' = <<r, c>>
  /\ UNCHANGED <<DEFAULT_STATE, running, async_vars, session_vars>>
  /\ \E t \in game_turns(keyboard_state, r, c) : Finish(t.state, t.res, t.cell)

\* start, end and stop are no move attempt: the turn record is cleared
NoTurn ==
  /\ outcome' = NO_OUTCOME
  /\ before' = NoState
  /\ played' = NoCell
  /\ reply' = NoCell

start ==
  /\ running
  /\ start_registered(conv_state)
  /\ prev_conv' = conv_state
  /\ moves' = 0
  /\ keyboard_state' = get_default_state(DEFAULT_STATE)
  /\ conv_state' = CONTINUE_GAME
  /\ msg' = MSG_START
  /\ NoTurn
  /\ UNCHANGED <<DEFAULT_STATE, running, async_vars, session_vars>>

end ==
  /\ running
  /\ end_registered(conv_state)
  /\ prev_conv' = conv_state
  /\ moves' = 0
  /\ keyboard_state' = get_default_state(DEFAULT_STATE)
  /\ conv_state' = END
  /\ NoTurn
  /\ UNCHANGED <<DEFAULT_STATE, running, msg, async_vars, session_vars>>

\* stop also stops the application: no update is processed afterwards
stop ==
  /\ running
  /\ stop_registered(conv_state)
  /\ prev_conv' = conv_state
  /\ moves' = 0
  /\ msg' = MSG_STOP
  /\ keyboard_state' = get_default_state(DEFAULT_STATE)
  /\ running' = FALSE
  /\ conv_state' = END
  /\ NoTurn
  /\ UNCHANGED <<DEFAULT_STATE, async_vars, session_vars>>

Init ==
  /\ DEFAULT_STATE = EmptyBoard
  /\ keyboard_state = NoState
  /\ conv_state = END
  /\ running = TRUE
  /\ msg = MSG_NONE
  /\ outcome = NO_OUTCOME
  /\ before = NoState
  /\ played = NoCell
  /\ reply = NoCell
  /\ prev_conv = END
  /\ moves = 0
  /\ AsyncIdle
  /\ SessionsIdle

Next ==
  \/ start
  \/ \E r \in Idx, c \in Idx : game(r, c)
  \/ end
  \/ stop

Spec == Init /\ [][Next]_vars

\* a move attempt on a free cell
LegalMove ==
  \E r \in Idx, c \in Idx : game(r, c) /\ keyboard_state[r][c] = FREE_SPACE

\* the player keeps pressing free cells while the game is on
SpecLive == Init /\ [][Next]_vars /\ WF_vars(LegalMove)

\* the conversation is in CONTINUE_GAME on an arbitrary well-formed board
InitAny ==
  /\ DEFAULT_STATE = EmptyBoard
  /\ keyboard_state \in Boards
  /\ conv_state = CONTINUE_GAME
  /\ running = TRUE
  /\ msg = MSG_START
  /\ outcome = NO_OUTCOME
  /\ before = NoState
  /\ played = NoCell
  /\ reply = NoCell
  /\ prev_conv = CONTINUE_GAME
  /\ moves = Cardinality({cell \in Coord : keyboard_state[cell[1]][cell[2]] = CROSS})
  /\ AsyncIdle
  /\ SessionsIdle
  /\ SessionsIdle

SpecAny == InitAny /\ [][Next]_vars

\* ---- game as a coroutine: calls of game interleaved at their awaits ----
\* A task is one call of game.  Its pc names the statement it executes next;
\* at "await_answer" (line 78) and "await_send" (lines 85, 94, 108, 115, 123)
\* it is suspended and another task may run.  The text it sends is res.msg;
\* the conversation state is stored when the call returns.

\* an await added between the user victory check and the AI turn
suspends_before_ai(pc) ==
  pc \in {"idle", "await_answer", "await_send", "done", "ai_choice"}

suspends(pc) == pc \in {"idle", "await_answer", "await_send", "done"}

\* task h may execute its next statement
MayRun(h) == cur = 0 \/ cur = h

\* task h moves on to pc2 with its locals changed to loc
Goto(h, loc, pc2) ==
  /\ tasks' = [tasks EXCEPT ![h] = [loc EXCEPT !.pc = pc2]]
  /\ cur' = IF suspends(pc2) THEN 0 ELSE h

\* lines 75-78: a new call of game takes the first unused task
game_call(h, r, c) ==
  /\ running
  /\ game_registered(conv_state)
  /\ tasks[h].pc = "idle"
  /\ \A g \in Tasks : g < h => tasks[g].pc # "idle"
  /\ cur = 0
  /\ Goto(h, [IdleTask EXCEPT !.r = r, !.c = c], "await_answer")
  /\ UNCHANGED <<DEFAULT_STATE, keyboard_state, conv_state, running, msg, turn_vars, session_vars>>

\* lines 80-87
game_free_cell_check(h) ==
  /\ tasks[h].pc = "await_answer"
  /\ MayRun(h)
  /\ IF cell_occupied(keyboard_state, tasks[h].r, tasks[h].c)
       THEN Goto(h, [IdleTask EXCEPT !.res = occupied_result], "await_send")
       ELSE Goto(h, tasks[h], "user_turn")
  /\ UNCHANGED <<DEFAULT_STATE, keyboard_state, conv_state, running, msg, turn_vars, session_vars>>

\* lines 90-97
game_user_turn(h) ==
  /\ tasks[h].pc = "user_turn"
  /\ MayRun(h)
  /\ keyboard_state' = user_turn(keyboard_state, tasks[h].r, tasks[h].c)
  /\ IF user_victory_check(keyboard_state')
       THEN Goto(h, [IdleTask EXCEPT !.res = user_won_result], "await_send")
       ELSE Goto(h, tasks[h], "ai_choice")
  /\ UNCHANGED <<DEFAULT_STATE, conv_state, running, msg, turn_vars, session_vars>>

\* lines 100-103
game_ai_choice(h) ==
  /\ tasks[h].pc = "ai_choice"
  /\ MayRun(h)
  /\ LET free == free_cells(keyboard_state) IN
     IF free # {}
       THEN \E cell \in free :
              Goto(h, [tasks[h] EXCEPT !.free = free, !.cell = cell], "ai_turn")
       ELSE Goto(h, [tasks[h] EXCEPT !.free = free], "draw_check")
  /\ UNCHANGED <<DEFAULT_STATE, keyboard_state, conv_state, running, msg, turn_vars, session_vars>>

\* lines 104-111, then the draw check
game_ai_turn(h) ==
  /\ tasks[h].pc = "ai_turn"
  /\ MayRun(h)
  /\ keyboard_state' = ai_turn(keyboard_state, tasks[h].cell[1], tasks[h].cell[2])
  /\ IF ai_victory_check(keyboard_state')
       THEN Goto(h, [IdleTask EXCEPT !.res = ai_won_result], "await_send")
       ELSE Goto(h, [IdleTask EXCEPT !.res = after_ai(tasks[h].free)], "await_send")
  /\ UNCHANGED <<DEFAULT_STATE, conv_state, running, msg, turn_vars, session_vars>>

\* lines 114-127 when the AI block was skipped
game_draw_check(h) ==
  /\ tasks[h].pc = "draw_check"
  /\ MayRun(h)
  /\ Goto(h, [IdleTask EXCEPT !.res = after_ai(tasks[h].free)], "await_send")
  /\ UNCHANGED <<DEFAULT_STATE, keyboard_state, conv_state, running, msg, turn_vars, session_vars>>

\* the return statements at lines 87, 97, 111, 118, 128
game_return(h) ==
  /\ tasks[h].pc = "await_send"
  /\ MayRun(h)
  /\ conv_state' = tasks[h].res.ret
  /\ Goto(h, IdleTask, "done")
  /\ UNCHANGED <<DEFAULT_STATE, keyboard_state, running, msg, turn_vars, session_vars>>

\* a session in CONTINUE_GAME with no call of game in flight: right after
\* start, or late in a game
InitAsync ==
  /\ DEFAULT_STATE = EmptyBoard
  /\ keyboard_state \in {get_default_state(DEFAULT_STATE), LateBoard}
  /\ conv_state = CONTINUE_GAME
  /\ running = TRUE
  /\ msg = MSG_START
  /\ outcome = NO_OUTCOME
  /\ before = NoState
  /\ played = NoCell
  /\ reply = NoCell
  /\ prev_conv = END
  /\ moves = Cardinality({cell \in Coord : keyboard_state[cell[1]][cell[2]] = CROSS})
  /\ AsyncIdle
  /\ SessionsIdle

NextAsync ==
  \E h \in Tasks :
    \/ \E r \in Idx, c \in Idx : game_call(h, r, c)
    \/ game_free_cell_check(h)
    \/ game_user_turn(h)
    \/ game_ai_choice(h)
    \/ game_ai_turn(h)
    \/ game_draw_check(h)
    \/ game_return(h)

SpecAsync == InitAsync /\ [][NextAsync]_vars

\* ---- the sessions of several users ----
\* context.user_data is one dict per user; 'keyboard_state' in it refers to
\* a list object.  Each user has one conversation.

\* get_default_state handing out DEFAULT_STATE itself instead of a copy
get_default_state_ref_shared(u) == 0

\* the object get_default_state returns in a handler called for user u: a
\* new one (the board u held before is dropped with the assignment)
get_default_state_ref(u) == u

\* the board a reference refers to
Deref(ref) == IF ref = 0 THEN DEFAULT_STATE ELSE boards[ref]

\* state[r][c] = ... through a reference: the board is changed in place
Store(ref, state) ==
  IF ref = 0
    THEN DEFAULT_STATE' = state /\ UNCHANGED boards
    ELSE boards' = [boards EXCEPT ![ref] = state] /\ UNCHANGED DEFAULT_STATE

\* context.user_data['keyboard_state'] = get_default_state()
Reset(u) ==
  LET ref == get_default_state_ref(u) IN
  /\ user_data' = [user_data EXCEPT ![u] = ref]
  /\ IF ref = 0
       THEN UNCHANGED boards
       ELSE boards' = [boards EXCEPT ![ref] = get_default_state(DEFAULT_STATE)]
  /\ UNCHANGED DEFAULT_STATE

session_start(u) ==
  /\ running
  /\ last_user' = u
  /\ start_registered(conversations[u])
  /\ Reset(u)
  /\ conversations' = [conversations EXCEPT ![u] = CONTINUE_GAME]
  /\ UNCHANGED <<keyboard_state, conv_state, running, msg, turn_vars, async_vars,
                 session_turns>>

session_game(u, r, c) ==
  /\ running
  /\ last_user' = u
  /\ game_registered(conversations[u])
  /\ session_turns < MaxSessionTurns
  /\ session_turns' = session_turns + 1
  /\ \E t \in game_turns(Deref(user_data[u]), r, c) :
        /\ Store(user_data[u], t.state)
        /\ conversations' = [conversations EXCEPT ![u] = t.res.ret]
  /\ UNCHANGED <<keyboard_state, conv_state, running, msg, turn_vars, async_vars,
                 user_data>>

session_end(u) ==
  /\ running
  /\ last_user' = u
  /\ end_registered(conversations[u])
  /\ Reset(u)
  /\ conversations' = [conversations EXCEPT ![u] = END]
  /\ UNCHANGED <<keyboard_state, conv_state, running, msg, turn_vars, async_vars,
                 session_turns>>

session_stop(u) ==
  /\ running
  /\ last_user' = u
  /\ stop_registered(conversations[u])
  /\ Reset(u)
  /\ running' = FALSE
  /\ conversations' = [conversations EXCEPT ![u] = END]
  /\ UNCHANGED <<keyboard_state, conv_state, msg, turn_vars, async_vars,
                 session_turns>>

NextSessions ==
  \E u \in Users :
    \/ session_start(u)
    \/ \E r \in Idx, c \in Idx : session_game(u, r, c)
    \/ session_end(u)
    \/ session_stop(u)

\* every user has either not started yet or is late in a game
InitSessions ==
  /\ DEFAULT_STATE = EmptyBoard
  /\ keyboard_state = NoState
  /\ conv_state = END
  /\ running = TRUE
  /\ msg = MSG_NONE
  /\ outcome = NO_OUTCOME
  /\ before = NoState
  /\ played = NoCell
  /\ reply = NoCell
  /\ prev_conv = END
  /\ moves = 0
  /\ AsyncIdle
  /\ boards \in [Users -> {NoState, LateBoard}]
  /\ user_data = [u \in Users |-> IF boards[u] = NoState THEN NoRef ELSE u]
  /\ conversations = [u \in Users |-> IF boards[u] = NoState THEN END ELSE CONTINUE_GAME]
  /\ session_turns = 0
  /\ last_user = 0

SpecSessions == InitSessions /\ [][NextSessions]_vars

\* ---- vocabulary of the properties ----
\* the 8 lines, written out cell by cell
Lines == { {<<0,0>>, <<0,1>>, <<0,2>>}, {<<1,0>>, <<1,1>>, <<1,2>>},
           {<<2,0>>, <<2,1>>, <<2,2>>}, {<<0,0>>, <<1,0>>, <<2,0>>},
           {<<0,1>>, <<1,1>>, <<2,1>>}, {<<0,2>>, <<1,2>>, <<2,2>>},
           {<<0,0>>, <<1,1>>, <<2,2>>}, {<<0,2>>, <<1,1>>, <<2,0>>} }
At(b, cell) == b[cell[1]][cell[2]]
HasLine(b, m) == \E line \in Lines : \A cell \in line : At(b, cell) = m
Empties(b) == {cell \in Coord : At(b, cell) = FREE_SPACE}
Count(b, m) == Cardinality({cell \in Coord : At(b, cell) = m})
Row(a, b, c) == [j \in Idx |-> IF j = 0 THEN a ELSE IF j = 1 THEN b ELSE c]
Grid(r0, r1, r2) == [i \in Idx |-> IF i = 0 THEN r0 ELSE IF i = 1 THEN r1 ELSE r2]

\* the last handler call was a move attempt (a call of game)
Turn == outcome # NO_OUTCOME
\* that attempt was on a free cell
LegalTurn == Turn /\ At(before, played) = FREE_SPACE
\* the board of that attempt with only the player's mark added
PlayerPlaced == [before EXCEPT ![played[1]][played[2]] = CROSS]

\* C1: a move attempt on a cell holding X or O yields ILLEGAL_MOVE, leaves
\* all 9 cells as they were, places no opponent mark and keeps the session in
\* AWAITING_MOVE (CONTINUE_GAME).
C1_OccupiedIsNoOp ==
  (Turn /\ At(before, played) # FREE_SPACE) =>
     /\ outcome = ILLEGAL_MOVE
     /\ keyboard_state = before
     /\ reply = NoCell
     /\ conv_state = CONTINUE_GAME

\* Scenario D: (1,1) is played where board[1][1] is already O
C1_Witness ==
  /\ outcome = ILLEGAL_MOVE
  /\ played = <<1, 1>>
  /\ before[1][1] = ZERO
  /\ Count(before, CROSS) = 2

\* C2: a player mark on a free cell that completes a line of player marks
\* yields PLAYER_WIN, makes the session TERMINAL (FINISH_GAME), places no
\* opponent mark, and changes exactly the played cell.
C2_PlayerWin ==
  (LegalTurn /\ HasLine(PlayerPlaced, CROSS)) =>
     /\ outcome = PLAYER_WIN
     /\ conv_state = FINISH_GAME
     /\ reply = NoCell
     /\ keyboard_state = PlayerPlaced

\* Scenario B: [[X,X,.],[O,O,.],[.,.,.]], the player plays (0,2)
C2_Witness ==
  /\ outcome = PLAYER_WIN
  /\ played = <<0, 2>>
  /\ before = Grid(Row(CROSS, CROSS, FREE_SPACE), Row(ZERO, ZERO, FREE_SPACE),
                   Row(FREE_SPACE, FREE_SPACE, FREE_SPACE))
  /\ keyboard_state = Grid(Row(CROSS, CROSS, CROSS), Row(ZERO, ZERO, FREE_SPACE),
                           Row(FREE_SPACE, FREE_SPACE, FREE_SPACE))

\* C3: on every 3x3 board over {EMPTY, X, O} and for both marks, won is true
\* exactly when one of the 8 lines has all three cells equal to the mark; a
\* line with two such cells and one EMPTY cell does not make it true.
C3_WonIffLine ==
  keyboard_state \in Boards =>
     \A m \in {CROSS, ZERO} :
        /\ won(keyboard_state, m) <=> HasLine(keyboard_state, m)
        /\ (\A line \in Lines : \E cell \in line : At(keyboard_state, cell) # m)
              => ~won(keyboard_state, m)

\* X holds column 2, O holds two cells of column 0 whose third cell is EMPTY
C3_Witness ==
  /\ outcome = PLAYER_WIN
  /\ \A i \in Idx : keyboard_state[i][2] = CROSS
  /\ keyboard_state[0][0] = ZERO /\ keyboard_state[1][0] = ZERO
  /\ keyboard_state[2][0] = FREE_SPACE
  /\ won(keyboard_state, CROSS)
  /\ ~won(keyboard_state, ZERO)

\* C4: a player move that fills the last EMPTY cell without completing a
\* line of player marks yields DRAW, makes the session TERMINAL, and no
\* opponent mark is placed.
C4_FullBoardIsDraw ==
  (LegalTurn /\ ~HasLine(PlayerPlaced, CROSS) /\ Empties(PlayerPlaced) = {}) =>
     /\ outcome = DRAW
     /\ conv_state = FINISH_GAME
     /\ reply = NoCell
     /\ keyboard_state = PlayerPlaced

\* Scenario C: 8 cells filled, no winner, the player plays the EMPTY (2,2)
C4_Witness ==
  /\ outcome = DRAW
  /\ played = <<2, 2>>
  /\ Empties(before) = {<<2, 2>>}
  /\ Empties(keyboard_state) = {}
  /\ ~HasLine(keyboard_state, CROSS)

\* C5: the win check precedes the draw check: a player move that fills the
\* last EMPTY cell and completes a line of player marks yields PLAYER_WIN,
\* not DRAW.
C5_WinBeforeDraw ==
  (LegalTurn /\ Empties(PlayerPlaced) = {} /\ HasLine(PlayerPlaced, CROSS)) =>
     outcome = PLAYER_WIN /\ outcome # DRAW /\ msg = MSG_YOU_WON

C5_Witness ==
  /\ outcome = PLAYER_WIN
  /\ Cardinality(Empties(before)) = 1
  /\ Empties(keyboard_state) = {}
  /\ HasLine(keyboard_state, CROSS)

\* C6: when a legal player move neither wins nor fills the board, the
\* opponent places exactly one mark, on a cell that was EMPTY after the
\* player's placement, and every such cell is a possible choice; an ONGOING
\* turn adds exactly one X and one O; the first move on an empty board is
\* always ONGOING with one X and one O.
C6_OpponentReply ==
  /\ (LegalTurn /\ ~HasLine(PlayerPlaced, CROSS) /\ Empties(PlayerPlaced) # {}) =>
        /\ reply \in Empties(PlayerPlaced)
        /\ keyboard_state = [PlayerPlaced EXCEPT ![reply[1]][reply[2]] = ZERO]
        /\ outcome \in {ONGOING, OPPONENT_WIN}
  /\ outcome = ONGOING =>
        /\ Count(keyboard_state, CROSS) = Count(before, CROSS) + 1
        /\ Count(keyboard_state, ZERO) = Count(before, ZERO) + 1
        /\ Count(keyboard_state, FREE_SPACE) = Count(before, FREE_SPACE) - 2
  /\ (Turn /\ before = EmptyBoard) =>
        /\ outcome = ONGOING
        /\ Count(keyboard_state, CROSS) = 1
        /\ Count(keyboard_state, ZERO) = 1
  /\ (running /\ conv_state = CONTINUE_GAME) =>
        \A r \in Idx, c \in Idx :
           LET s1 == [keyboard_state EXCEPT ![r][c] = CROSS] IN
           (keyboard_state[r][c] = FREE_SPACE /\ ~HasLine(s1, CROSS)) =>
              \A cell \in Empties(s1) : ENABLED (game(r, c) /\ reply' = cell)

\* Scenario A: empty board, the player plays (0,0), the opponent replies
C6_Witness ==
  /\ outcome = ONGOING
  /\ before = EmptyBoard
  /\ played = <<0, 0>>
  /\ reply = <<2, 2>>
  /\ Count(keyboard_state, CROSS) = 1
  /\ Count(keyboard_state, ZERO) = 1

\* C7: when the opponent's counter-move completes a line of opponent marks
\* the turn yields OPPONENT_WIN and the session becomes TERMINAL;
\* OPPONENT_WIN is reported only in a turn in which the opponent placed a mark.
C7_OpponentWin ==
  /\ (Turn /\ reply # NoCell
        /\ \E line \in Lines : reply \in line
                               /\ \A cell \in line : At(keyboard_state, cell) = ZERO) =>
        outcome = OPPONENT_WIN /\ conv_state = FINISH_GAME
  /\ outcome = OPPONENT_WIN =>
        /\ reply # NoCell
        /\ At(before, reply) = FREE_SPACE
        /\ At(keyboard_state, reply) = ZERO

C7_Witness ==
  /\ outcome = OPPONENT_WIN
  /\ reply # NoCell
  /\ HasLine(keyboard_state, ZERO)
  /\ ~HasLine(before, ZERO)
  /\ conv_state = FINISH_GAME

C9_DrawIffFullNoLine ==
  Turn => (outcome = DRAW <=>
             /\ Empties(keyboard_state) = {}
             /\ ~HasLine(keyboard_state, CROSS)
             /\ ~HasLine(keyboard_state, ZERO))

C9_Witness ==
  /\ outcome = DRAW
  /\ msg = MSG_DRAW
  /\ Count(keyboard_state, CROSS) = 5
  /\ Count(keyboard_state, ZERO) = 4
  /\ ~HasLine(keyboard_state, CROSS)
  /\ ~HasLine(keyboard_state, ZERO)

\* C10: every move attempt received in AWAITING_MOVE produces one of the five
\* outcomes and leaves the session in AWAITING_MOVE on ILLEGAL_MOVE or
\* ONGOING and in TERMINAL on PLAYER_WIN, OPPONENT_WIN or DRAW.
C10_OutcomeDecidesPhase ==
  [][(\E r \in Idx, c \in Idx : game(r, c)) =>
        /\ conv_state = CONTINUE_GAME
        /\ outcome' \in Outcomes
        /\ outcome' \in {ILLEGAL_MOVE, ONGOING} => conv_state' = CONTINUE_GAME
        /\ outcome' \in {PLAYER_WIN, OPPONENT_WIN, DRAW} => conv_state' = FINISH_GAME
        /\ conv_state' \in {CONTINUE_GAME, FINISH_GAME}]_vars

\* a game that went on after an ONGOING turn and then ended in a draw
C10_Witness ==
  /\ outcome = DRAW
  /\ conv_state = FINISH_GAME
  /\ Count(before, FREE_SPACE) = 1

\* C11: TERMINAL (FINISH_GAME) is absorbing until a reset: in it no cell
\* event places a mark on the finished board or produces a game outcome, and
\* the session is in AWAITING_MOVE again only through start, which gives it an
\* all-EMPTY board.
C11_TerminalAbsorbing ==
  /\ [][conv_state = FINISH_GAME =>
          /\ keyboard_state' = keyboard_state \/ keyboard_state' = EmptyBoard
          /\ outcome' = outcome \/ outcome' = NO_OUTCOME
          /\ played' = played \/ played' = NoCell
          /\ moves' = moves \/ moves' = 0]_vars
  /\ [][(conv_state # CONTINUE_GAME /\ conv_state' = CONTINUE_GAME) =>
          /\ keyboard_state' = EmptyBoard
          /\ msg' = MSG_START
          /\ outcome' = NO_OUTCOME]_vars

\* a cell button pressed after the game ended: end has run
C11_Witness ==
  /\ prev_conv = FINISH_GAME
  /\ conv_state = END
  /\ keyboard_state = EmptyBoard
  /\ msg \in {MSG_YOU_WON, MSG_AI_WON, MSG_DRAW}

\* C12: a start, taken after TERMINAL or in any other phase and on any board,
\* yields an all-EMPTY board and the session in AWAITING_MOVE.
C12_StartGivesFreshBoard ==
  /\ [](running => ENABLED start)
  /\ [][start => /\ \A cell \in Coord : At(keyboard_state', cell) = FREE_SPACE
                 /\ conv_state' = CONTINUE_GAME]_vars

\* Scenario E: start after the game ended
C12_Witness ==
  /\ prev_conv = FINISH_GAME
  /\ conv_state = CONTINUE_GAME
  /\ msg = MSG_START
  /\ Count(keyboard_state, FREE_SPACE) = 9

\* C13: each of the five outcomes is always signalled by the same pair of
\* message and next conversation state, and the five pairs are pairwise
\* distinct, so the signal determines the outcome.
SignalOf(o) ==
  CASE o = ILLEGAL_MOVE -> <<MSG_OCCUPIED, CONTINUE_GAME>>
    [] o = PLAYER_WIN -> <<MSG_YOU_WON, FINISH_GAME>>
    [] o = OPPONENT_WIN -> <<MSG_AI_WON, FINISH_GAME>>
    [] o = DRAW -> <<MSG_DRAW, FINISH_GAME>>
    [] o = ONGOING -> <<MSG_TURN, CONTINUE_GAME>>

C13_DistinctStableSignals ==
  /\ Turn => <<msg, conv_state>> = SignalOf(outcome)
  /\ \A o1 \in Outcomes, o2 \in Outcomes :
        SignalOf(o1)[1] = SignalOf(o2)[1] => o1 = o2

C13_Witness ==
  /\ outcome = OPPONENT_WIN
  /\ msg = MSG_AI_WON
  /\ conv_state = FINISH_GAME
  /\ moves = 3

\* C14: every cell holds one of EMPTY, X, O, and within one game a cell that
\* holds X or O keeps that mark: only a reset to the all-EMPTY board changes it.
C14_MarksAreKept ==
  /\ [](keyboard_state \in Boards \cup {NoState})
  /\ [][(/\ keyboard_state \in Boards
         /\ \E cell \in Coord : /\ At(keyboard_state, cell) # FREE_SPACE
                                /\ At(keyboard_state', cell) # At(keyboard_state, cell))
          => (outcome' = NO_OUTCOME /\ keyboard_state' = EmptyBoard)]_vars

\* a game in which four player marks and four replies have been placed
C14_Witness ==
  /\ outcome = ONGOING
  /\ moves = 4
  /\ Count(keyboard_state, CROSS) = 4
  /\ Count(keyboard_state, ZERO) = 4

\* C16: in AWAITING_MOVE the board has as many X as O, no line of either
\* mark and at least one EMPTY cell; in TERMINAL it has as many X as O or one
\* X more.
C16_BalancedBoard ==
  /\ conv_state = CONTINUE_GAME =>
        /\ Count(keyboard_state, CROSS) = Count(keyboard_state, ZERO)
        /\ ~HasLine(keyboard_state, CROSS)
        /\ ~HasLine(keyboard_state, ZERO)
        /\ Empties(keyboard_state) # {}
  /\ conv_state = FINISH_GAME =>
        Count(keyboard_state, CROSS) - Count(keyboard_state, ZERO) \in {0, 1}

C16_Witness ==
  /\ conv_state = FINISH_GAME
  /\ Count(keyboard_state, CROSS) = 4
  /\ Count(keyboard_state, ZERO) = 4
  /\ prev_conv = CONTINUE_GAME

\* C17: X and O never both have a line, and the outcome that ended the game
\* matches the board: after PLAYER_WIN only X has a line, after OPPONENT_WIN
\* only O, after DRAW neither and the board is full.
C17_OutcomeMatchesBoard ==
  /\ keyboard_state \in Boards =>
        ~(HasLine(keyboard_state, CROSS) /\ HasLine(keyboard_state, ZERO))
  /\ outcome = PLAYER_WIN =>
        HasLine(keyboard_state, CROSS) /\ ~HasLine(keyboard_state, ZERO)
  /\ outcome = OPPONENT_WIN =>
        HasLine(keyboard_state, ZERO) /\ ~HasLine(keyboard_state, CROSS)
  /\ outcome = DRAW =>
        /\ ~HasLine(keyboard_state, CROSS)
        /\ ~HasLine(keyboard_state, ZERO)
        /\ Empties(keyboard_state) = {}
  /\ conv_state = FINISH_GAME => outcome \in {PLAYER_WIN, OPPONENT_WIN, DRAW}

\* X wins on the second diagonal after three replies
C17_Witness ==
  /\ outcome = PLAYER_WIN
  /\ \A i \in Idx : keyboard_state[i][2 - i] = CROSS
  /\ Count(keyboard_state, ZERO) = 3
  /\ ~HasLine(keyboard_state, ZERO)

\* C18: every game ends: a game takes at most 5 legal player moves, only an
\* ILLEGAL_MOVE attempt leaves the board as it was, and while the player
\* keeps making legal moves a game in progress reaches TERMINAL (unless start
\* or stop abandons it).
C18_GameEnds ==
  /\ [](moves <= 5 /\ (moves = 5 => conv_state # CONTINUE_GAME))
  /\ [][(\E r \in Idx, c \in Idx : game(r, c)) =>
          \/ /\ outcome' = ILLEGAL_MOVE
             /\ moves' = moves
             /\ keyboard_state' = keyboard_state
          \/ /\ outcome' # ILLEGAL_MOVE
             /\ moves' = moves + 1
             /\ Count(keyboard_state', FREE_SPACE) < Count(keyboard_state, FREE_SPACE)]_vars
  /\ (conv_state = CONTINUE_GAME /\ Turn) ~> (conv_state = FINISH_GAME \/ ~Turn)

\* the fifth legal move has ended the game
C18_Witness ==
  /\ moves = 5
  /\ conv_state = FINISH_GAME
  /\ Count(keyboard_state, CROSS) = 5

\* C15: the board change of one move attempt is atomic with respect to the
\* suspension points of game: no call is suspended between its free-cell
\* check and its last board write, so a call that reads the board never finds
\* another call's player mark placed with the reply still pending, and no
\* occupied cell is overwritten.
MidTurn(h) == tasks[h].pc \in {"user_turn", "ai_choice", "ai_turn"}

C15_TurnIsAtomic ==
  /\ [](cur = 0 => \A h \in Tasks : ~MidTurn(h))
  /\ [][\A g \in Tasks :
          (tasks[g].pc = "await_answer" /\ tasks'[g].pc # "await_answer") =>
             \A h \in Tasks \ {g} : ~MidTurn(h)]_vars
  /\ [][\A cell \in Coord :
          At(keyboard_state, cell) # FREE_SPACE =>
             At(keyboard_state', cell) = At(keyboard_state, cell)]_vars

\* two attempts in flight: both have made their board change and are
\* suspended in the send of their message
C15_Witness ==
  /\ tasks[1].pc = "await_send"
  /\ tasks[2].pc = "await_send"
  /\ tasks[1].res.outcome = ONGOING
  /\ tasks[2].res.outcome = ONGOING
  /\ Count(keyboard_state, CROSS) = 2
  /\ Count(keyboard_state, ZERO) = 2

\* C19: boards are never shared: every start or reset gives the session its
\* own copy of the all-EMPTY template, the template stays all EMPTY, and a
\* move attempt in one session changes no cell of another session's board.
HasBoard(u) == user_data[u] # NoRef

BoardOf(v) == Deref(user_data[v])
BoardOfNext(v) == IF user_data'[v] = 0 THEN DEFAULT_STATE' ELSE boards'[user_data'[v]]

C19_BoardsNotShared ==
  /\ [](DEFAULT_STATE = EmptyBoard)
  /\ [](\A u \in Users : HasBoard(u) =>
           /\ user_data[u] # 0
           /\ \A v \in Users \ {u} : user_data[v] # user_data[u])
  /\ [][\A v \in Users \ {last_user'} :
          HasBoard(v) => /\ user_data'[v] = user_data[v]
                         /\ BoardOfNext(v) = BoardOf(v)]_vars
  /\ [][(session_turns' = session_turns /\ user_data' # user_data)
          => BoardOfNext(last_user') = EmptyBoard]_vars

\* user 1 has restarted on a fresh board after user 2 made a move; user 2's
\* board still holds the marks of that turn
C19_Witness ==
  /\ session_turns = 1
  /\ last_user = 1
  /\ conversations[1] = CONTINUE_GAME
  /\ conversations[2] = CONTINUE_GAME
  /\ HasBoard(1) /\ HasBoard(2)
  /\ BoardOf(1) = EmptyBoard
  /\ Count(BoardOf(2), CROSS) = 1
  /\ Count(BoardOf(2), ZERO) = 1

TypeOK ==
  /\ keyboard_state \in Boards \cup {NoState}
  /\ conv_state \in {CONTINUE_GAME, FINISH_GAME, END}
  /\ outcome \in Outcomes \cup {NO_OUTCOME}
====
